---- MODULE Spec2Model ----
(***************************************************************************)
(* TP-Lite stats bridge of telio-firewall (tp_lite_stats.rs):              *)
(*   - CallbackManager: RwLock<Box<Box<dyn TpLiteStatsCallback>>>          *)
(*   - collect_stats: the extern "C" trampoline libfirewall calls          *)
(*   - the From conversions of the foreign records into owned values       *)
(* Threads: application threads replacing the callback (register),         *)
(* threads calling as_raw_ptr, and native threads calling collect_stats.   *)
(***************************************************************************)
EXTENDS Integers, Sequences, FiniteSets, TLC

\* ------------------------------------------------------------------ bounds
MaxRegisters == 2
MaxInvocations == 2
MaxDomains == 2
MaxDistribution == 2
MaxBytes == 4

\* ------------------------------------------------------------- processes
Trampolines == {"t1", "t2"}
Registrars == {"r1", "r2"}
HandleCallers == {"h1"}
NoThread == "none"

\* ---------------------------------------------------- addresses, callbacks
\* data.is_null()
NullPtr == 0
\* heap address of the outer Box allocation made by CallbackManager::new
OuterBoxAddr == 1
\* struct NoopCallback, the callback installed by CallbackManager::new
NoopCallback == 0
\* callbacks handed to register are numbered 1..MaxRegisters
Callbacks == 0..MaxRegisters
\* heap address of the object of callback c (the data word of its Box<dyn>)
CallbackAddr(c) == c + 2
\* what a read through a pointer that is no Box<dyn TpLiteStatsCallback> yields
WildWord == -1
WildRef == [data |-> WildWord, vtable |-> WildWord]
\* a Box<dyn TpLiteStatsCallback> is two words: the object and its vtable
FatPtr(c) == [data |-> c, vtable |-> c]

\* ----------------------------------------------------------- marshalling
ReplacementChar == 65533

\* CStr::from_ptr: the bytes before the first NUL
RECURSIVE CStrFromPtr(_)
CStrFromPtr(buf) ==
    IF buf = <<>> \/ Head(buf) = 0 THEN <<>>
    ELSE <<Head(buf)>> \o CStrFromPtr(Tail(buf))

Utf8CharWidth(b) ==
    IF b < 128 THEN 1
    ELSE IF b >= 194 /\ b <= 223 THEN 2
    ELSE IF b >= 224 /\ b <= 239 THEN 3
    ELSE IF b >= 240 /\ b <= 244 THEN 4
    ELSE 0

IsCont(b) == b >= 128 /\ b <= 191

SecondOf3(b1, b2) ==
    \/ b1 = 224 /\ b2 >= 160 /\ b2 <= 191
    \/ b1 >= 225 /\ b1 <= 236 /\ IsCont(b2)
    \/ b1 = 237 /\ b2 >= 128 /\ b2 <= 159
    \/ b1 >= 238 /\ b1 <= 239 /\ IsCont(b2)

SecondOf4(b1, b2) ==
    \/ b1 = 240 /\ b2 >= 144 /\ b2 <= 191
    \/ b1 >= 241 /\ b1 <= 243 /\ IsCont(b2)
    \/ b1 = 244 /\ b2 >= 128 /\ b2 <= 143

\* CStr::to_string_lossy: the text as its sequence of code points; every
\* maximal invalid part becomes one U+FFFD
RECURSIVE LossyFrom(_, _)
LossyFrom(b, i) ==
    IF i > Len(b) THEN <<>>
    ELSE
      LET get(j) == IF j <= Len(b) THEN b[j] ELSE 0
          b1 == b[i]
          w == Utf8CharWidth(b1)
          bad(next) == <<ReplacementChar>> \o LossyFrom(b, next)
      IN  IF w = 1 THEN <<b1>> \o LossyFrom(b, i + 1)
          ELSE IF w = 2 THEN
            IF ~IsCont(get(i + 1)) THEN bad(i + 1)
            ELSE <<(b1 - 192) * 64 + (get(i + 1) - 128)>> \o LossyFrom(b, i + 2)
          ELSE IF w = 3 THEN
            IF ~SecondOf3(b1, get(i + 1)) THEN bad(i + 1)
            ELSE IF ~IsCont(get(i + 2)) THEN bad(i + 2)
            ELSE <<(b1 - 224) * 4096 + (get(i + 1) - 128) * 64 + (get(i + 2) - 128)>>
                 \o LossyFrom(b, i + 3)
          ELSE IF w = 4 THEN
            IF ~SecondOf4(b1, get(i + 1)) THEN bad(i + 1)
            ELSE IF ~IsCont(get(i + 2)) THEN bad(i + 2)
            ELSE IF ~IsCont(get(i + 3)) THEN bad(i + 3)
            ELSE <<(b1 - 240) * 262144 + (get(i + 1) - 128) * 4096
                   + (get(i + 2) - 128) * 64 + (get(i + 3) - 128)>>
                 \o LossyFrom(b, i + 4)
          ELSE bad(i + 1)

\* a bug: every byte is taken for a character of its own
ToStringLatin1(bytes) == bytes

ToStringLossy(bytes) == LossyFrom(bytes, 1)

\* the bytes are well-formed UTF-8 from position i on
RECURSIVE ValidFrom(_, _)
ValidFrom(b, i) ==
    IF i > Len(b) THEN TRUE
    ELSE
      LET get(j) == IF j <= Len(b) THEN b[j] ELSE 0
          w == Utf8CharWidth(b[i])
      IN  IF w = 1 THEN ValidFrom(b, i + 1)
          ELSE IF w = 2 THEN IsCont(get(i + 1)) /\ ValidFrom(b, i + 2)
          ELSE IF w = 3 THEN
            SecondOf3(b[i], get(i + 1)) /\ IsCont(get(i + 2)) /\ ValidFrom(b, i + 3)
          ELSE IF w = 4 THEN
            /\ SecondOf4(b[i], get(i + 1)) /\ IsCont(get(i + 2)) /\ IsCont(get(i + 3))
            /\ ValidFrom(b, i + 4)
          ELSE FALSE

IsValidUtf8(bytes) == ValidFrom(bytes, 1)

\* the Cow<str> to_string_lossy returns: well-formed bytes are borrowed where
\* they lie, anything else is a freshly allocated String
Cow(bytes) == [borrowed |-> IsValidUtf8(bytes), text |-> ToStringLossy(bytes)]

\* a bug: the Cow is kept as it is, a borrowed one still points at the bytes
IntoOwnedKeepsBorrow(cow) == cow

\* Cow::into_owned: a String of its own, the text copied if it was borrowed
IntoOwned(cow) == [borrowed |-> FALSE, text |-> cow.text]

StringFields == {"domain_name", "category"}

\* impl From<&LibfwBlockedDomain> for BlockedDomain
BlockedDomainFrom(domain) ==
    [domain_name |-> IntoOwned(Cow(CStrFromPtr(domain.domain_name))).text,
     record_type |-> domain.record_type,
     timestamp |-> domain.timestamp,
     category |-> IntoOwned(Cow(CStrFromPtr(domain.category))).text]

\* the string fields of the converted record that point into the foreign one
BlockedDomainBorrows(domain) ==
    {f \in StringFields : IntoOwned(Cow(CStrFromPtr(domain[f]))).borrowed}

\* a bug: the count is ignored and the whole buffer taken
FromRawPartsWholeBuffer(buf, len) == buf

\* slice::from_raw_parts(ptr, len): the first len elements at ptr
FromRawParts(buf, len) == SubSeq(buf, 1, len)

\* .iter().map(BlockedDomain::from).collect(): a Vec grown by one push per element
RECURSIVE MapCollectVec(_, _)
MapCollectVec(slice, acc) ==
    IF slice = <<>> THEN acc
    ELSE MapCollectVec(Tail(slice), Append(acc, BlockedDomainFrom(Head(slice))))

\* collect_stats, lines 54-57
ConvertDomains(domains, num_blocked_domains) ==
    MapCollectVec(FromRawParts(domains, num_blocked_domains), <<>>)

\* lines 54-57: the foreign strings the owned domains point into, as
\* <<index, field>>
DomainBorrows(domains, num_blocked_domains) ==
    LET slice == FromRawParts(domains, num_blocked_domains)
    IN  {x \in (1..Len(slice)) \X StringFields : x[2] \in BlockedDomainBorrows(slice[x[1]])}

\* a bug: a present key keeps its first value (entry().or_insert)
MapInsertKeepFirst(m, k, v) ==
    [x \in DOMAIN m \cup {k} |-> IF x \in DOMAIN m THEN m[x] ELSE v]

\* HashMap::insert: a present key has its value replaced
MapInsert(m, k, v) == [x \in DOMAIN m \cup {k} |-> IF x = k THEN v ELSE m[x]]

EmptyMap == [x \in {} |-> 0]

\* .iter().map(|count| (count.rr_type, count.count)).collect::<HashMap<_, _>>()
RECURSIVE CollectHashMap(_, _)
CollectHashMap(slice, acc) ==
    IF slice = <<>> THEN acc
    ELSE CollectHashMap(Tail(slice), MapInsert(acc, Head(slice).rr_type, Head(slice).count))

\* a bug: two counters land in each other's field
DnsMetricsFromSwapped(metrics) ==
    [num_requests |-> metrics.num_responses,
     num_responses |-> metrics.num_requests,
     num_malformed_requests |-> metrics.num_malformed_requests,
     num_malformed_responses |-> metrics.num_malformed_responses,
     num_cache_hits |-> metrics.num_cache_hits,
     record_type_distribution |->
        CollectHashMap(FromRawParts(metrics.record_type_distribution,
                                    metrics.num_record_types), EmptyMap),
     response_type_distribution |->
        CollectHashMap(FromRawParts(metrics.response_code_distribution,
                                    metrics.num_response_codes), EmptyMap)]

\* impl From<LibfwDnsMetrics> for DnsMetrics
DnsMetricsFrom(metrics) ==
    [num_requests |-> metrics.num_requests,
     num_responses |-> metrics.num_responses,
     num_malformed_requests |-> metrics.num_malformed_requests,
     num_malformed_responses |-> metrics.num_malformed_responses,
     num_cache_hits |-> metrics.num_cache_hits,
     record_type_distribution |->
        CollectHashMap(FromRawParts(metrics.record_type_distribution,
                                    metrics.num_record_types), EmptyMap),
     response_type_distribution |->
        CollectHashMap(FromRawParts(metrics.response_code_distribution,
                                    metrics.num_response_codes), EmptyMap)]

\* ------------------------------------------------- what libfirewall supplies
\* LibfwBlockedDomain records; the two strings are NUL-terminated buffers
ForeignDomains ==
    { [domain_name |-> <<97, 100, 0>>, record_type |-> 1,
       timestamp |-> 1700000000, category |-> <<109, 0>>],
      [domain_name |-> <<195, 169, 0, 120>>, record_type |-> 28,
       timestamp |-> 0, category |-> <<255, 0>>],
      [domain_name |-> <<226, 130, 0>>, record_type |-> 65535,
       timestamp |-> 2147483647, category |-> <<0>>] }

SeqsUpTo(S, n) == UNION {[1..k -> S] : k \in 0..n}

\* a pointer-and-count pair: the buffer at the pointer and a count within it
Slices(S, n) == {[buf |-> b, len |-> k] : b \in SeqsUpTo(S, n), k \in 0..n}

RecordTypeCounts == { [rr_type |-> 1, count |-> 5], [rr_type |-> 1, count |-> 9],
                      [rr_type |-> 28, count |-> 2] }
ResponseCodeCounts == { [rr_type |-> 0, count |-> 4], [rr_type |-> 3, count |-> 1],
                        [rr_type |-> 3, count |-> 6] }

LibfwDnsMetrics(counters, rt, rc) ==
    [num_requests |-> counters[1], num_responses |-> counters[2],
     num_malformed_requests |-> counters[3], num_malformed_responses |-> counters[4],
     num_cache_hits |-> counters[5],
     record_type_distribution |-> rt.buf, num_record_types |-> rt.len,
     response_code_distribution |-> rc.buf, num_response_codes |-> rc.len]

CounterVectors == { <<11, 12, 13, 14, 15>>, <<2147483647, 0, 1, 0, 2147483647>> }

ValidSlices(S, n) == {s \in Slices(S, n) : s.len <= Len(s.buf)}

AllDomainSlices == ValidSlices(ForeignDomains, MaxDomains)
AllMetrics ==
    { LibfwDnsMetrics(c, rt, rc) : c \in CounterVectors,
        rt \in ValidSlices(RecordTypeCounts, MaxDistribution),
        rc \in ValidSlices(ResponseCodeCounts, MaxDistribution) }

EmptySlice == [buf |-> <<>>, len |-> 0]
FewDomainSlices ==
    { EmptySlice,
      [buf |-> <<CHOOSE d \in ForeignDomains : d.record_type = 1,
                 CHOOSE d \in ForeignDomains : d.record_type = 28>>, len |-> 1] }
FewMetrics ==
    { LibfwDnsMetrics(<<0, 0, 0, 0, 0>>, EmptySlice, EmptySlice),
      LibfwDnsMetrics(<<11, 12, 13, 14, 15>>,
        [buf |-> <<[rr_type |-> 1, count |-> 5]>>, len |-> 1],
        [buf |-> <<[rr_type |-> 3, count |-> 1]>>, len |-> 1]) }

\* the (domains, num_blocked_domains, metrics) arguments of one call
CallArgs(ds, ms) ==
    {[domains |-> d.buf, num_blocked_domains |-> d.len, metrics |-> m] : d \in ds, m \in ms}

\* arguments used while the threads interleave
RaceInputs ==
    { [domains |-> <<>>, num_blocked_domains |-> 0,
       metrics |-> LibfwDnsMetrics(<<0, 0, 0, 0, 0>>, EmptySlice, EmptySlice)],
      [domains |-> <<CHOOSE d \in ForeignDomains : d.record_type = 28>>,
       num_blocked_domains |-> 1,
       metrics |-> LibfwDnsMetrics(<<11, 12, 13, 14, 15>>,
                     [buf |-> <<[rr_type |-> 1, count |-> 5]>>, len |-> 1],
                     [buf |-> <<[rr_type |-> 3, count |-> 1]>>, len |-> 1])] }

\* arguments used to exercise the conversions
MarshalInputs ==
    CallArgs(AllDomainSlices, FewMetrics) \cup CallArgs(FewDomainSlices, AllMetrics)

\* bytes that make up well-formed sequences of one to four bytes (A, U+00E9,
\* U+20A9, U+1F0A9, U+D0A9) and, put otherwise, ill-formed ones (a lone
\* continuation byte, a cut-off sequence, a surrogate)
Bytes == {65, 195, 169, 226, 130, 240, 159, 237}

\* the NUL-terminated buffers of up to MaxBytes bytes
CStrings == {b \o <<0>> : b \in SeqsUpTo(Bytes, MaxBytes)}

\* arguments used to exercise the decoding: one record, its category the same
\* bytes as its name or empty
DecodeInputs ==
    { [domains |-> <<[domain_name |-> b, record_type |-> 1, timestamp |-> 0,
                      category |-> IF same THEN b ELSE <<0>>]>>,
       num_blocked_domains |-> 1,
       metrics |-> LibfwDnsMetrics(<<0, 0, 0, 0, 0>>, EmptySlice, EmptySlice)] :
      b \in CStrings, same \in BOOLEAN }

NoArgs == [domains |-> <<>>, num_blocked_domains |-> 0, metrics |-> <<>>]
NoOwned == [domains |-> <<>>, metrics |-> <<>>]

\* ------------------------------------------------------------------ state
VARIABLES
    boxAddr,      \* CallbackManager.callback: the address held by the outer Box
    slot,         \* the Box<dyn TpLiteStatsCallback> stored at that address
    freed,        \* callbacks whose object has been dropped and deallocated
    readers,      \* threads holding the RwLock for reading
    writer,       \* the thread holding the RwLock for writing, or NoThread
    pc,           \* where each thread is
    newCb,        \* registrar -> the callback it is installing
    registered,   \* number of register calls started
    lastReturned, \* the callback of the register call that returned last
    exported,     \* the addresses as_raw_ptr has returned
    invocations,  \* number of collect_stats calls started
    ctx,          \* trampoline thread -> the data argument of its call in progress
    args,         \* trampoline thread -> the other arguments of the call in progress
    owned,        \* trampoline thread -> the owned values converted so far
    foreignReads, \* trampoline thread -> foreign elements read by its call in progress
    borrows,      \* trampoline thread -> the foreign strings its owned values point into
    cbRef,        \* trampoline thread -> the callback reference it has loaded
    calls,        \* trampoline thread -> collect calls made by its call in progress
    passed,       \* trampoline thread -> what its call in progress passed to collect
    undisturbed,  \* trampoline thread -> no register ran since its call began
    delivered,    \* the callbacks whose collect has run with an observable effect
    optionsInput, \* the serialized options: each field absent or given
    options,      \* the TpLiteStatsOptions built from it
    resolved,     \* the values in effect once the defaults are applied
    optionsStage  \* "input", "built" or "resolved"

vars == <<boxAddr, slot, freed, readers, writer, pc, newCb, registered, lastReturned,
          exported, invocations, ctx, args, owned, foreignReads, borrows, cbRef,
          calls, passed, undisturbed, delivered,
          optionsInput, options, resolved, optionsStage>>

optionVars == <<optionsInput, options, resolved, optionsStage>>
lockVars == <<readers, writer>>
managerVars == <<boxAddr, slot, freed>>
registerVars == <<newCb, registered, lastReturned>>
trampolineVars == <<invocations, ctx, args, owned, foreignReads, borrows, cbRef, calls, passed,
                    undisturbed, delivered>>

Threads == Trampolines \cup Registrars \cup HandleCallers

NoRef == [data |-> NoopCallback, vtable |-> NoopCallback]

\* CallbackManager::new
New ==
    /\ boxAddr = OuterBoxAddr
    /\ slot = FatPtr(NoopCallback)
    /\ freed = {}
    /\ readers = {}
    /\ writer = NoThread

BridgeInit ==
    /\ New
    /\ pc = [p \in Threads |-> "idle"]
    /\ newCb = [r \in Registrars |-> NoopCallback]
    /\ registered = 0
    /\ lastReturned = NoopCallback
    /\ exported = {}
    /\ invocations = 0
    /\ ctx = [t \in Trampolines |-> NullPtr]
    /\ args = [t \in Trampolines |-> NoArgs]
    /\ owned = [t \in Trampolines |-> NoOwned]
    /\ foreignReads = [t \in Trampolines |-> 0]
    /\ borrows = [t \in Trampolines |-> {}]
    /\ cbRef = [t \in Trampolines |-> NoRef]
    /\ calls = [t \in Trampolines |-> 0]
    /\ passed = [t \in Trampolines |-> NoOwned]
    /\ undisturbed = [t \in Trampolines |-> FALSE]
    /\ delivered = {}

\* ----------------------------------------------------- TpLiteStatsOptions
\* Option<u64>
None == [some |-> FALSE, value |-> 0]
Some(v) == [some |-> TRUE, value |-> v]

\* a field of the serialized input: absent, or given with a value
Absent == [given |-> FALSE, value |-> 0]
Given(v) == [given |-> TRUE, value |-> v]

OptionValues == {1, 42}
DnsServerLists == {<<>>, <<"10.0.0.1">>, <<"10.0.0.1", "fd00::1">>}

\* the serialized inputs: any subset of the fields given
OptionInputs ==
    [dns_server_ips : {[given |-> FALSE, value |-> <<>>]}
                        \cup {[given |-> TRUE, value |-> l] : l \in DnsServerLists},
     blocked_domains_buffer_size : {Absent} \cup {Given(v) : v \in OptionValues},
     callback_interval_s : {Absent} \cup {Given(v) : v \in OptionValues},
     cache_size : {Absent} \cup {Given(v) : v \in OptionValues},
     max_open_requests : {Absent} \cup {Given(v) : v \in OptionValues}]

EmptyInput ==
    [dns_server_ips |-> [given |-> FALSE, value |-> <<>>],
     blocked_domains_buffer_size |-> Absent, callback_interval_s |-> Absent,
     cache_size |-> Absent, max_open_requests |-> Absent]

\* a bug: the field is a plain u64, an absent field is u64::default()
SerdeDefaultZero(f) == Some(f.value)

\* #[serde(default)] on an Option<u64> field: absent is None
SerdeDefaultOption(f) == IF f.given THEN Some(f.value) ELSE None

\* a bug: an absent list is filled with a built-in resolver
SerdeDefaultResolver(f) == IF f.given THEN f.value ELSE <<"1.1.1.1">>

\* #[serde(default)] on dns_server_ips: absent is Vec::default()
SerdeDefaultVec(f) == IF f.given THEN f.value ELSE <<>>

\* #[derive(Deserialize)] for TpLiteStatsOptions
Deserialize(input) ==
    [dns_server_ips |-> SerdeDefaultVec(input.dns_server_ips),
     blocked_domains_buffer_size |-> SerdeDefaultOption(input.blocked_domains_buffer_size),
     callback_interval_s |-> SerdeDefaultOption(input.callback_interval_s),
     cache_size |-> SerdeDefaultOption(input.cache_size),
     max_open_requests |-> SerdeDefaultOption(input.max_open_requests)]

\* #[derive(Default)]: what an input with no field yields
DefaultOptions == Deserialize(EmptyInput)

\* the documented defaults (doc comments of the fields)
DefaultBlockedDomainsBufferSize == 100
DefaultCallbackIntervalS == 5
DefaultCacheSize == 512

UnwrapOr(opt, default) == IF opt.some THEN opt.value ELSE default

\* The defaulting rules (spec 4.4) the consumer of the options applies:
\* max_open_requests falls back to the resolved blocked_domains_buffer_size
ResolveDefaults(o) ==
    LET buffer == UnwrapOr(o.blocked_domains_buffer_size, DefaultBlockedDomainsBufferSize)
    IN  [dns_server_ips |-> o.dns_server_ips,
         blocked_domains_buffer_size |-> buffer,
         callback_interval_s |-> UnwrapOr(o.callback_interval_s, DefaultCallbackIntervalS),
         cache_size |-> UnwrapOr(o.cache_size, DefaultCacheSize),
         max_open_requests |-> UnwrapOr(o.max_open_requests, buffer)]

NoOptions == <<>>

OptionsIdle ==
    /\ optionsInput = EmptyInput
    /\ options = NoOptions
    /\ resolved = NoOptions
    /\ optionsStage = "input"

Init == BridgeInit /\ OptionsIdle

OptionsInit ==
    /\ BridgeInit
    /\ optionsInput \in OptionInputs
    /\ options = NoOptions
    /\ resolved = NoOptions
    /\ optionsStage = "input"

bridgeVars == <<boxAddr, slot, freed, readers, writer, pc, newCb, registered,
                lastReturned, exported, invocations, ctx, args, owned, foreignReads, borrows,
                cbRef, calls, passed, undisturbed, delivered>>

\* the options are deserialized from the input
OptionsDeserialize ==
    /\ optionsStage = "input"
    /\ options' = Deserialize(optionsInput)
    /\ optionsStage' = "built"
    /\ UNCHANGED <<bridgeVars, optionsInput, resolved>>

\* TpLiteStatsOptions::default(): no input is read
OptionsDefault ==
    /\ optionsStage = "input"
    /\ optionsInput' = EmptyInput
    /\ options' = DefaultOptions
    /\ optionsStage' = "built"
    /\ UNCHANGED <<bridgeVars, resolved>>

OptionsResolve ==
    /\ optionsStage = "built"
    /\ resolved' = ResolveDefaults(options)
    /\ optionsStage' = "resolved"
    /\ UNCHANGED <<bridgeVars, optionsInput, options>>

OptionsNext == OptionsDeserialize \/ OptionsDefault \/ OptionsResolve

OptionsSpec == OptionsInit /\ [][OptionsNext]_vars

\* ------------------------------------------------------------- as_raw_ptr
\* line 37: self.callback.read()
AsRawPtrLock(h) ==
    /\ pc[h] = "idle"
    /\ writer = NoThread
    /\ readers' = readers \cup {h}
    /\ pc' = [pc EXCEPT ![h] = "ptr"]
    /\ UNCHANGED <<optionVars, writer, managerVars, registerVars, exported, trampolineVars>>

\* a bug: every call returns the address of a copy it has just made
AsRawPtrOfFreshCopy == boxAddr + 1 + Cardinality(exported)

\* a bug: the address of the callback object (&***cb), which every replace changes
AsRawPtrOfCallback == CallbackAddr(slot.data)

\* line 38: &**cb, the address of the Box<dyn> inside the outer Box
AsRawPtrAddress == boxAddr

\* a bug: the read guard is leaked (mem::forget), the lock stays read-locked
AsRawPtrLeakGuard(h) == readers

\* the read guard is dropped when as_raw_ptr returns
DropReadGuard(h) == readers \ {h}

\* lines 38-40: the address is computed, the guard dropped, the address returned
AsRawPtrReturn(h) ==
    /\ pc[h] = "ptr"
    /\ exported' = exported \cup {[addr |-> AsRawPtrAddress, early |-> registered = 0]}
    /\ readers' = DropReadGuard(h)
    /\ pc' = [pc EXCEPT ![h] = "idle"]
    /\ UNCHANGED <<optionVars, writer, managerVars, registerVars, trampolineVars>>

\* --------------------------------------------------------------- register
\* The replacement of the active callback (spec 4.1, 5): it takes the write
\* lock, waits for the readers, assigns the interior Box<dyn> in place (the
\* old callback is dropped, then the two words are written) and unlocks.
RegisterStart(r) ==
    /\ pc[r] = "idle"
    /\ registered < MaxRegisters
    /\ registered' = registered + 1
    /\ newCb' = [newCb EXCEPT ![r] = registered + 1]
    /\ undisturbed' = [t \in Trampolines |-> FALSE]
    /\ pc' = [pc EXCEPT ![r] = "reg_lock"]
    /\ UNCHANGED <<optionVars, lockVars, managerVars, lastReturned, exported, invocations, ctx, args,
                   owned, foreignReads, borrows, cbRef, calls, passed, delivered>>

RegisterLock(r) ==
    /\ pc[r] = "reg_lock"
    /\ writer = NoThread
    /\ readers = {}
    /\ writer' = r
    /\ pc' = [pc EXCEPT ![r] = "reg_drop"]
    /\ UNCHANGED <<optionVars, readers, managerVars, registerVars, exported, trampolineVars>>

\* NoopCallback is zero-sized: its Box owns no allocation
DropCallback(c) == IF c = NoopCallback THEN freed ELSE freed \cup {CallbackAddr(c)}

RegisterDropOld(r) ==
    /\ pc[r] = "reg_drop"
    /\ freed' = DropCallback(slot.data)
    /\ pc' = [pc EXCEPT ![r] = "reg_data"]
    /\ UNCHANGED <<optionVars, boxAddr, slot, lockVars, registerVars, exported, trampolineVars>>

RegisterWriteData(r) ==
    /\ pc[r] = "reg_data"
    /\ slot' = [slot EXCEPT !.data = newCb[r]]
    /\ pc' = [pc EXCEPT ![r] = "reg_vtable"]
    /\ UNCHANGED <<optionVars, boxAddr, freed, lockVars, registerVars, exported, trampolineVars>>

RegisterWriteVtable(r) ==
    /\ pc[r] = "reg_vtable"
    /\ slot' = [slot EXCEPT !.vtable = newCb[r]]
    /\ pc' = [pc EXCEPT ![r] = "reg_unlock"]
    /\ UNCHANGED <<optionVars, boxAddr, freed, lockVars, registerVars, exported, trampolineVars>>

RegisterUnlock(r) ==
    /\ pc[r] = "reg_unlock"
    /\ writer' = NoThread
    /\ lastReturned' = newCb[r]
    /\ newCb' = [newCb EXCEPT ![r] = NoopCallback]
    /\ pc' = [pc EXCEPT ![r] = "idle"]
    /\ UNCHANGED <<optionVars, readers, managerVars, registered, exported, trampolineVars>>

RegisterInProgress == \E r \in Registrars : pc[r] # "idle"

\* ---------------------------------------------------------- collect_stats
\* a bug: the null check is missing
IsNullNever(data) == FALSE

\* line 49: data.is_null()
IsNull(data) == data = NullPtr

\* the two words at an address, read as a Box<dyn TpLiteStatsCallback>
Memory(addr) == IF addr = boxAddr THEN slot ELSE WildRef

\* lines 43-57: the call, its null check (a null data returns at once), the
\* cast of data (no memory is read) and the owned domains
CollectStatsEntry(t, inputs) ==
    /\ pc[t] = "idle"
    /\ invocations < MaxInvocations
    /\ invocations' = invocations + 1
    /\ \E data \in {NullPtr} \cup {e.addr : e \in exported}, a \in inputs :
        /\ ctx' = [ctx EXCEPT ![t] = data]
        /\ IF IsNull(data)
           THEN UNCHANGED <<pc, args, owned, foreignReads, borrows, undisturbed>>
           ELSE /\ pc' = [pc EXCEPT ![t] = "load_data"]
                /\ args' = [args EXCEPT ![t] = a]
                /\ owned' = [owned EXCEPT ![t].domains =
                                ConvertDomains(a.domains, a.num_blocked_domains)]
                /\ foreignReads' = [foreignReads EXCEPT ![t] = a.num_blocked_domains]
                /\ borrows' = [borrows EXCEPT ![t] =
                                DomainBorrows(a.domains, a.num_blocked_domains)]
                /\ undisturbed' = [undisturbed EXCEPT ![t] = ~RegisterInProgress]
    /\ UNCHANGED <<optionVars, lockVars, managerVars, registerVars, exported, cbRef, calls,
                   passed, delivered>>

\* line 58, the receiver **cb: the Box<dyn> at data is read without any lock,
\* one word after the other
LoadData(t) ==
    /\ pc[t] = "load_data"
    /\ cbRef' = [cbRef EXCEPT ![t].data = Memory(ctx[t]).data]
    /\ pc' = [pc EXCEPT ![t] = "load_vtable"]
    /\ UNCHANGED <<optionVars, lockVars, managerVars, registerVars, exported, invocations, ctx,
                   args, owned, foreignReads, borrows, calls, passed, undisturbed, delivered>>

LoadVtable(t) ==
    /\ pc[t] = "load_vtable"
    /\ cbRef' = [cbRef EXCEPT ![t].vtable = Memory(ctx[t]).vtable]
    /\ pc' = [pc EXCEPT ![t] = "call"]
    /\ UNCHANGED <<optionVars, lockVars, managerVars, registerVars, exported, invocations, ctx,
                   args, owned, foreignReads, borrows, calls, passed, undisturbed, delivered>>

\* a bug: every callback's collect has an effect, NoopCallback's too
CollectAlwaysRecords(ref) == delivered \cup {ref.vtable}

\* the collect the vtable selects runs on the object; NoopCallback::collect
\* (line 22) has an empty body
CollectEffect(ref) ==
    IF ref.vtable = NoopCallback THEN delivered ELSE delivered \cup {ref.vtable}

\* a bug: the slot is read-locked for the lookup and the guard lives until
\* collect_stats returns, so collect runs under the lock
ReadGuardAcrossCollect(t) == {t}

\* line 58: the lock guards of the calling thread alive while collect runs;
\* collect_stats takes no lock, so there is none
GuardsAcrossCollect(t) == {}

\* a bug: the owned domains are not handed over, collect gets an empty Vec
CollectArgumentsNoDomains(t) ==
    [domains |-> <<>>, metrics |-> DnsMetricsFrom(args[t].metrics)]

\* line 58: the arguments of collect: the owned domains and metrics.into()
CollectArguments(t) ==
    [domains |-> owned[t].domains, metrics |-> DnsMetricsFrom(args[t].metrics)]

\* line 58: metrics.into(), then cb.collect(domains, metrics) begins
CallCollect(t) ==
    /\ pc[t] = "call"
    /\ GuardsAcrossCollect(t) = {} \/ writer = NoThread
    /\ readers' = readers \cup GuardsAcrossCollect(t)
    /\ owned' = [owned EXCEPT ![t].metrics = DnsMetricsFrom(args[t].metrics)]
    /\ passed' = [passed EXCEPT ![t] = CollectArguments(t)]
    /\ delivered' = CollectEffect(cbRef[t])
    /\ foreignReads' = [foreignReads EXCEPT ![t] =
          @ + args[t].metrics.num_record_types + args[t].metrics.num_response_codes]
    /\ calls' = [calls EXCEPT ![t] = @ + 1]
    /\ pc' = [pc EXCEPT ![t] = "in_collect"]
    /\ UNCHANGED <<optionVars, writer, managerVars, registerVars, exported, invocations, ctx,
                   args, borrows, cbRef, undisturbed>>

\* collect returns and with it collect_stats; its locals are gone
CollectReturn(t) ==
    /\ pc[t] = "in_collect"
    /\ pc' = [pc EXCEPT ![t] = "idle"]
    /\ ctx' = [ctx EXCEPT ![t] = NullPtr]
    /\ args' = [args EXCEPT ![t] = NoArgs]
    /\ owned' = [owned EXCEPT ![t] = NoOwned]
    /\ foreignReads' = [foreignReads EXCEPT ![t] = 0]
    /\ borrows' = [borrows EXCEPT ![t] = {}]
    /\ cbRef' = [cbRef EXCEPT ![t] = NoRef]
    /\ calls' = [calls EXCEPT ![t] = 0]
    /\ passed' = [passed EXCEPT ![t] = NoOwned]
    /\ undisturbed' = [undisturbed EXCEPT ![t] = FALSE]
    /\ readers' = readers \ {t}
    /\ UNCHANGED <<optionVars, writer, managerVars, registerVars, exported, invocations,
                   delivered>>

\* ------------------------------------------------ libfirewall's own memory
\* the arrays behind the pointers of a call after libfirewall has reused
\* them: every record and string holds something else. The counts and the
\* counters came by value and are the trampoline's own.
Overwritten(a) ==
    [domains |-> [i \in 1..Len(a.domains) |->
                    [domain_name |-> <<120, 0>>, record_type |-> 0, timestamp |-> 0,
                     category |-> <<120, 120, 0>>]],
     num_blocked_domains |-> a.num_blocked_domains,
     metrics |-> [a.metrics EXCEPT
        !.record_type_distribution =
            [i \in 1..Len(@) |-> [rr_type |-> 255, count |-> 0]],
        !.response_code_distribution =
            [i \in 1..Len(@) |-> [rr_type |-> 255, count |-> 0]]]]

\* the values collect holds, as they read once the foreign memory is a: a
\* string that points into a foreign buffer reads as that buffer's text now
ReadThrough(p, bs, a) ==
    [p EXCEPT !.domains =
        [i \in 1..Len(@) |->
            [domain_name |-> IF <<i, "domain_name">> \in bs
                             THEN ToStringLossy(CStrFromPtr(a.domains[i].domain_name))
                             ELSE @[i].domain_name,
             record_type |-> @[i].record_type,
             timestamp |-> @[i].timestamp,
             category |-> IF <<i, "category">> \in bs
                          THEN ToStringLossy(CStrFromPtr(a.domains[i].category))
                          ELSE @[i].category]]]

\* collect_stats's caller owns the arrays (lines 43-48): it may reuse them while
\* collect is still running on another thread's behalf
EngineOverwrite(t) ==
    /\ pc[t] = "in_collect"
    /\ args[t] # Overwritten(args[t])
    /\ args' = [args EXCEPT ![t] = Overwritten(args[t])]
    /\ passed' = [passed EXCEPT ![t] = ReadThrough(passed[t], borrows[t], args'[t])]
    /\ UNCHANGED <<optionVars, lockVars, managerVars, registerVars, exported, invocations, ctx,
                   owned, foreignReads, borrows, cbRef, calls, undisturbed, delivered, pc>>

\* ---------------------------------------------------------- specifications
Next ==
    \/ \E h \in HandleCallers : AsRawPtrLock(h)
    \/ \E h \in HandleCallers : AsRawPtrReturn(h)
    \/ \E r \in Registrars : RegisterStart(r)
    \/ \E r \in Registrars : RegisterLock(r)
    \/ \E r \in Registrars : RegisterDropOld(r)
    \/ \E r \in Registrars : RegisterWriteData(r)
    \/ \E r \in Registrars : RegisterWriteVtable(r)
    \/ \E r \in Registrars : RegisterUnlock(r)
    \/ \E t \in Trampolines : CollectStatsEntry(t, RaceInputs)
    \/ \E t \in Trampolines : LoadData(t)
    \/ \E t \in Trampolines : LoadVtable(t)
    \/ \E t \in Trampolines : CallCollect(t)
    \/ \E t \in Trampolines : CollectReturn(t)

Spec == Init /\ [][Next]_vars

\* one native thread calling collect_stats with every kind of argument, the
\* callback left as new installed it
MarshalThread == "t1"

MarshalNext ==
    \/ \E h \in HandleCallers : AsRawPtrLock(h)
    \/ \E h \in HandleCallers : AsRawPtrReturn(h)
    \/ CollectStatsEntry(MarshalThread, MarshalInputs)
    \/ LoadData(MarshalThread)
    \/ LoadVtable(MarshalThread)
    \/ CallCollect(MarshalThread)
    \/ CollectReturn(MarshalThread)

MarshalSpec == Init /\ [][MarshalNext]_vars

\* the same thread, calling with every byte string as a name
DecodeNext ==
    \/ \E h \in HandleCallers : AsRawPtrLock(h)
    \/ \E h \in HandleCallers : AsRawPtrReturn(h)
    \/ CollectStatsEntry(MarshalThread, DecodeInputs)
    \/ LoadData(MarshalThread)
    \/ LoadVtable(MarshalThread)
    \/ CallCollect(MarshalThread)
    \/ CollectReturn(MarshalThread)

DecodeSpec == Init /\ [][DecodeNext]_vars

\* the same, with libfirewall reusing its arrays while collect runs
OverwriteNext ==
    \/ \E h \in HandleCallers : AsRawPtrLock(h)
    \/ \E h \in HandleCallers : AsRawPtrReturn(h)
    \/ CollectStatsEntry(MarshalThread, MarshalInputs)
    \/ LoadData(MarshalThread)
    \/ LoadVtable(MarshalThread)
    \/ CallCollect(MarshalThread)
    \/ EngineOverwrite(MarshalThread)
    \/ CollectReturn(MarshalThread)

OverwriteSpec == Init /\ [][OverwriteNext]_vars

\* A thread that is inside a call keeps running. parking_lot's RwLock is
\* fair to writers: a writer waiting for a lock that is free again and again
\* gets it.
RegisterFairness ==
    \A r \in Registrars :
        /\ SF_vars(RegisterLock(r))
        /\ WF_vars(RegisterDropOld(r))
        /\ WF_vars(RegisterWriteData(r))
        /\ WF_vars(RegisterWriteVtable(r))
        /\ WF_vars(RegisterUnlock(r))

HandleFairness == \A h \in HandleCallers : WF_vars(AsRawPtrReturn(h))

TrampolineFairness ==
    \A t \in Trampolines :
        /\ WF_vars(LoadData(t))
        /\ WF_vars(LoadVtable(t))
        /\ WF_vars(CallCollect(t))

\* every callback's collect returns
CollectReturns == \A t \in Trampolines : WF_vars(CollectReturn(t))

LiveSpec ==
    Spec /\ RegisterFairness /\ HandleFairness /\ TrampolineFairness /\ CollectReturns

\* a callback's collect may never return
StuckSpec == Spec /\ RegisterFairness /\ HandleFairness /\ TrampolineFairness

\* -------------------------------------------------------------- properties
WellFormed(ref) == ref.data \in Callbacks /\ ref.vtable = ref.data
Live(c) == CallbackAddr(c) \notin freed
EarlyHandles == {e.addr : e \in {x \in exported : x.early}}
Resolving(t) == pc[t] = "load_vtable"

\* C1: whenever a trampoline invocation calls collect, it calls it on one
\* well-formed callback reference (object and vtable of the same callback)
\* whose callback has not been replaced and destroyed.
C1_CollectOnWellFormedLiveCallback ==
    [][\A t \in Trampolines :
         (pc[t] = "call" /\ pc'[t] = "in_collect")
            => (WellFormed(cbRef[t]) /\ Live(cbRef[t].data))]_vars

\* C2: every address as_raw_ptr has returned, before or after any number of
\* register calls, is the one address of the callback slot allocated by new,
\* and that slot is still allocated.
C2_HandleStable ==
    \A e \in exported :
        /\ e.addr = OuterBoxAddr
        /\ e.addr = boxAddr
        /\ e.addr \notin freed
        /\ e.addr # NullPtr

C2_Witness ==
    /\ \E e1, e2 \in exported : e1.early /\ ~e2.early
    /\ lastReturned # NoopCallback
    /\ freed # {}

\* C3: once register(c) has returned and no register has been in progress
\* since the invocation began, an invocation with a handle captured before any
\* register resolves to c and calls c's collect.
C3_ResolvesToLastRegistered ==
    \A t \in Trampolines :
        (/\ pc[t] \in {"call", "in_collect"}
         /\ undisturbed[t]
         /\ lastReturned # NoopCallback
         /\ ctx[t] \in EarlyHandles)
        => /\ cbRef[t] = FatPtr(lastReturned)
           /\ Live(lastReturned)
           /\ (pc[t] = "in_collect" => lastReturned \in delivered)

C3_Witness ==
    \E t \in Trampolines :
        /\ pc[t] = "in_collect"
        /\ undisturbed[t]
        /\ lastReturned # NoopCallback
        /\ ctx[t] \in EarlyHandles
        /\ registered = MaxRegisters

\* C4: the callback slot is never written, and no callback dropped, while a
\* trampoline invocation is in the middle of reading the slot.
C4_NoSwapDuringLookup ==
    [][(\E t \in Trampolines : Resolving(t)) => (slot' = slot /\ freed' = freed)]_vars

\* C5: under fair scheduling and with callbacks whose collect returns, every
\* register call and every trampoline invocation that has started completes.
C5_EveryCallCompletes ==
    /\ \A r \in Registrars : (pc[r] # "idle") ~> (pc[r] = "idle")
    /\ \A t \in Trampolines : (pc[t] # "idle") ~> (pc[t] = "idle")

C5_Witness ==
    /\ \A r \in Registrars : pc[r] = "reg_lock"
    /\ \A t \in Trampolines : pc[t] \in {"load_data", "load_vtable", "call", "in_collect"}
    /\ readers # {}

\* C6: a trampoline invocation that is executing collect holds no lock on the
\* slot, and a register call completes even if that collect never returns.
C6_CollectOutsideLock ==
    /\ [](\A t \in Trampolines : pc[t] = "in_collect" => (t \notin readers /\ writer # t))
    /\ \A r \in Registrars : (pc[r] # "idle") ~> (pc[r] = "idle")

C6_Witness ==
    \E t \in Trampolines, r \in Registrars :
        /\ pc[t] = "in_collect"
        /\ ~undisturbed[t]
        /\ pc[r] = "reg_unlock"

\* C7: a call of collect_stats with a null data returns at once: no callback
\* is invoked, no foreign array is read, the callback slot is unchanged.
C7_NullContextNoEffect ==
    [][(/\ invocations' = invocations + 1
        /\ \A t \in Trampolines : pc[t] = "idle" => ctx'[t] = NullPtr)
       => (/\ pc' = pc
           /\ <<boxAddr, slot, freed>>' = <<boxAddr, slot, freed>>
           /\ delivered' = delivered
           /\ calls' = calls
           /\ passed' = passed
           /\ foreignReads' = foreignReads)]_vars

C7_Witness ==
    /\ invocations = MaxInvocations
    /\ exported = {}
    /\ lastReturned # NoopCallback
    /\ delivered = {}

\* C8: an invocation with a non-null data returns only after it has called
\* collect exactly once, itself, with the domains and metrics converted from
\* its own arguments.
C8_CollectOncePerInvocation ==
    [][\A t \in Trampolines :
         (pc[t] # "idle" /\ pc'[t] = "idle")
            => (/\ pc[t] = "in_collect"
                /\ calls[t] = 1
                /\ passed[t].domains =
                     ConvertDomains(args[t].domains, args[t].num_blocked_domains)
                /\ passed[t].metrics = DnsMetricsFrom(args[t].metrics))]_vars

C8_Witness ==
    \E t, u \in Trampolines :
        /\ pc[t] = "in_collect" /\ pc[u] = "in_collect"
        /\ args[t] # args[u]
        /\ calls[t] = 1 /\ calls[u] = 1
        /\ passed[t] # passed[u]

\* C9: the slot holds one callback: NoopCallback after new, and then no
\* invocation has an observable effect; whenever no register holds the lock it
\* holds the callback of the register call that returned last, not dropped.
C9_OneActiveCallback ==
    /\ registered = 0 => (slot = FatPtr(NoopCallback) /\ delivered = {})
    /\ writer = NoThread => (slot = FatPtr(lastReturned) /\ Live(lastReturned))

C9_Witness ==
    \E t \in Trampolines :
        /\ registered = 0
        /\ pc[t] = "in_collect"
        /\ cbRef[t] = FatPtr(NoopCallback)

\* C10: the domains passed to collect are num_blocked_domains entries, the
\* i-th the conversion of the i-th foreign record; zero counts give an empty
\* domain sequence and two empty mappings.
C10_DomainCountAndOrder ==
    \A t \in Trampolines :
        pc[t] = "in_collect" =>
            LET n == args[t].num_blocked_domains
                m == args[t].metrics
            IN  /\ Len(passed[t].domains) = n
                /\ \A i \in 1..n :
                      passed[t].domains[i] = BlockedDomainFrom(args[t].domains[i])
                /\ (n = 0 /\ m.num_record_types = 0 /\ m.num_response_codes = 0)
                      => /\ passed[t].domains = <<>>
                         /\ DOMAIN passed[t].metrics.record_type_distribution = {}
                         /\ DOMAIN passed[t].metrics.response_type_distribution = {}

C10_Witness ==
    \E t \in Trampolines :
        /\ pc[t] = "in_collect"
        /\ args[t].num_blocked_domains = 2
        /\ Len(args[t].domains) = 2
        /\ passed[t].domains[1] # passed[t].domains[2]

\* the mapping an array of (key, count) pairs stands for: its keys, each with
\* the count of its last occurrence among the first n entries
LastWins(buf, n) ==
    [k \in {buf[i].rr_type : i \in 1..n} |->
        buf[CHOOSE i \in 1..n :
               buf[i].rr_type = k /\ \A j \in (i + 1)..n : buf[j].rr_type # k].count]

\* C11: each distribution mapping passed to collect has exactly the keys of
\* its array, each key with the count of its last occurrence; this holds for
\* the record-type and for the response-code distribution, duplicates or not.
C11_DistributionLastWins ==
    \A t \in Trampolines :
        pc[t] = "in_collect" =>
            LET m == args[t].metrics
            IN  /\ passed[t].metrics.record_type_distribution =
                     LastWins(m.record_type_distribution, m.num_record_types)
                /\ passed[t].metrics.response_type_distribution =
                     LastWins(m.response_code_distribution, m.num_response_codes)

C11_Witness ==
    \E t \in Trampolines :
        LET m == args[t].metrics
        IN  /\ pc[t] = "in_collect"
            /\ m.num_record_types = 2
            /\ m.record_type_distribution[1].rr_type = m.record_type_distribution[2].rr_type
            /\ m.record_type_distribution[1].count # m.record_type_distribution[2].count
            /\ m.num_response_codes = 2
            /\ m.response_code_distribution[1].rr_type
                  # m.response_code_distribution[2].rr_type

C14_NoDnsServersByDefault ==
    (optionsStage # "input" /\ ~optionsInput.dns_server_ips.given)
        => /\ options.dns_server_ips = <<>>
           /\ optionsStage = "resolved" => resolved.dns_server_ips = <<>>

C14_Witness ==
    /\ optionsStage = "built"
    /\ ~optionsInput.dns_server_ips.given
    /\ options.dns_server_ips = <<>>
    /\ options.cache_size = Some(42)
    /\ options.max_open_requests = None

\* C15: everything taken from the foreign arrays is copied before collect is
\* called: no owned value points into a foreign buffer at any time (so none
\* does after the trampoline returns), and while collect runs the domains and
\* metrics it was given do not change, whatever happens to the foreign arrays.
C15_OwnedCopies ==
    /\ [](\A t \in Trampolines : borrows[t] = {})
    /\ [][\A t \in Trampolines :
            pc[t] = "in_collect" /\ pc'[t] = "in_collect" => passed'[t] = passed[t]]_vars

\* collect is running on domains and distributions whose foreign arrays have
\* since been overwritten
C15_Witness ==
    /\ pc[MarshalThread] = "in_collect"
    /\ Len(passed[MarshalThread].domains) = 2
    /\ passed[MarshalThread].domains[1].domain_name = <<97, 100>>
    /\ DOMAIN passed[MarshalThread].metrics.record_type_distribution # {}
    /\ args[MarshalThread] = Overwritten(args[MarshalThread])
    /\ passed[MarshalThread].domains #
          ConvertDomains(args[MarshalThread].domains, args[MarshalThread].num_blocked_domains)
    /\ passed[MarshalThread].metrics # DnsMetricsFrom(args[MarshalThread].metrics)

\* the UTF-8 encoding of a sequence of code points
RECURSIVE Utf8Encode(_)
Utf8Encode(text) ==
    IF text = <<>> THEN <<>>
    ELSE
      LET c == Head(text)
          one == IF c < 128 THEN <<c>>
                 ELSE IF c < 2048 THEN <<192 + (c \div 64), 128 + (c % 64)>>
                 ELSE IF c < 65536
                   THEN <<224 + (c \div 4096), 128 + ((c \div 64) % 64), 128 + (c % 64)>>
                 ELSE <<240 + (c \div 262144), 128 + ((c \div 4096) % 64),
                        128 + ((c \div 64) % 64), 128 + (c % 64)>>
      IN  one \o Utf8Encode(Tail(text))

\* a Unicode scalar value: a code point that is not a surrogate
IsScalar(c) == c \in 0..1114111 /\ ~(c \in 55296..57343)

\* C16: decoding a name or category never fails: for any bytes the record is
\* converted and its text is a sequence of Unicode scalar values; well-formed
\* UTF-8 decodes to exactly the text it encodes; ill-formed bytes decode to a
\* text with U+FFFD markers in it; and the same bytes give the same text.
C16_LossyDecoding ==
    \A t \in Trampolines :
        (pc[t] # "idle" /\ args[t].num_blocked_domains = 1) =>
            LET d == args[t].domains[1]
                o == owned[t].domains[1]
                Decodes(buf, text) ==
                    LET bytes == CStrFromPtr(buf)
                    IN  /\ \A i \in 1..Len(text) : IsScalar(text[i])
                        /\ \/ Utf8Encode(text) = bytes
                           \/ \E i \in 1..Len(text) : text[i] = ReplacementChar
                        /\ IsValidUtf8(bytes) => Utf8Encode(text) = bytes
                        /\ ~IsValidUtf8(bytes) =>
                              /\ \E i \in 1..Len(text) : text[i] = ReplacementChar
                              /\ Utf8Encode(text) # bytes
            IN  /\ Len(owned[t].domains) = 1
                /\ Decodes(d.domain_name, o.domain_name)
                /\ Decodes(d.category, o.category)
                /\ d.category = d.domain_name => o.category = o.domain_name

\* a name of four bytes, a two-byte character between two ill-formed parts,
\* has been decoded, the category being the same bytes
C16_Witness ==
    /\ pc[MarshalThread] = "in_collect"
    /\ args[MarshalThread].num_blocked_domains = 1
    /\ args[MarshalThread].domains[1].domain_name = <<130, 195, 169, 240, 0>>
    /\ args[MarshalThread].domains[1].category = <<130, 195, 169, 240, 0>>
    /\ passed[MarshalThread].domains[1].domain_name =
          <<ReplacementChar, 233, ReplacementChar>>

\* C17: the numbers are copied unchanged, each to the field of the same
\* name: the five counters of the metrics, and the record type and timestamp
\* of every blocked domain.
C17_NumbersCopied ==
    \A t \in Trampolines :
        pc[t] = "in_collect" =>
            LET m == args[t].metrics
                p == passed[t].metrics
            IN  /\ p.num_requests = m.num_requests
                /\ p.num_responses = m.num_responses
                /\ p.num_malformed_requests = m.num_malformed_requests
                /\ p.num_malformed_responses = m.num_malformed_responses
                /\ p.num_cache_hits = m.num_cache_hits
                /\ \A i \in 1..args[t].num_blocked_domains :
                      /\ passed[t].domains[i].record_type = args[t].domains[i].record_type
                      /\ passed[t].domains[i].timestamp = args[t].domains[i].timestamp

\* collect has been given five different counters and two domains, one with
\* the largest record type and timestamp
C17_Witness ==
    \E t \in Trampolines :
        /\ pc[t] = "in_collect"
        /\ passed[t].metrics.num_requests = 11
        /\ passed[t].metrics.num_cache_hits = 15
        /\ Len(passed[t].domains) = 2
        /\ passed[t].domains[1].record_type = 1
        /\ passed[t].domains[2].record_type = 65535
        /\ passed[t].domains[2].timestamp = 2147483647

\* C18: a trampoline invocation never takes the lock of the callback slot: no
\* trampoline thread is ever among the lock's holders, and each of its steps
\* (the two loads of the callback reference, the call of collect) can be taken
\* whoever holds the lock, a register holding it for writing included. The
\* only readers are as_raw_ptr callers, and none of them still holds the lock
\* once as_raw_ptr has returned.
C18_TrampolineTakesNoLock ==
    /\ \A t \in Trampolines :
          /\ t \notin readers
          /\ writer # t
          /\ pc[t] = "load_data" => ENABLED LoadData(t)
          /\ pc[t] = "load_vtable" => ENABLED LoadVtable(t)
          /\ pc[t] = "call" => ENABLED CallCollect(t)
    /\ readers \subseteq HandleCallers
    /\ \A h \in HandleCallers : pc[h] = "idle" => h \notin readers

\* an invocation that began with a register in progress is inside collect
\* while a register holds the write lock, and as_raw_ptr has returned
C18_Witness ==
    \E t \in Trampolines, r \in Registrars :
        /\ pc[t] = "in_collect"
        /\ calls[t] = 1
        /\ writer = r
        /\ pc[r] \in {"reg_drop", "reg_data", "reg_vtable", "reg_unlock"}
        /\ ~undisturbed[t]
        /\ exported # {}
        /\ \A h \in HandleCallers : pc[h] = "idle"

\* C19: no step of as_raw_ptr or of a trampoline invocation changes the
\* callback slot (its address, its content, the callbacks destroyed); so
\* with no register at all the active callback is still the one new
\* installed, and every call of as_raw_ptr has returned the same address.
C19_SlotUntouched ==
    /\ [][(\A r \in Registrars : pc'[r] = pc[r]) => managerVars' = managerVars]_vars
    /\ [](registered = 0 =>
            /\ slot = FatPtr(NoopCallback)
            /\ freed = {}
            /\ \A e1, e2 \in exported : e1.addr = e2.addr)

\* as_raw_ptr has returned and all the invocations have run to their end,
\* with no register
C19_Witness ==
    /\ registered = 0
    /\ exported # {}
    /\ invocations = MaxInvocations
    /\ \A p \in Threads : pc[p] = "idle"

====
